---- MODULE Spec2Model ----
(***************************************************************************)
(* The LL clock engine of lancer-ledger (frontend lib ll-clock): the       *)
(* segment table, the total-tick accumulator, its inverse mapping and the  *)
(* pending-tick display breakdown.  The four functions are pure; each is   *)
(* an operator that computes what the code computes, loop iteration by     *)
(* loop iteration, and the state machine below is a caller that invokes    *)
(* them on integer inputs and keeps the last call and its result.          *)
(* Further specifications model the new-log and edit-log forms with the    *)
(* pilots row (LedgerSpec), the personal clock controls of the new-log     *)
(* form (ClockSpec), commits applied one after another (BatchSpec) and     *)
(* the functions run loop step by loop step (LoopSpec, ConcSpec).          *)
(***************************************************************************)
EXTENDS Integers, Sequences, FiniteSets, TLC

VARIABLES fn, args, ret,
          pilotRow, page, pilot, log, logType, llClockChange, preview, request,
          calls, locals,
          selectedClocks,
          start, committed

\* the call in progress of the ll-clock module
callVars == <<fn, args, ret>>

\* the pilots row, the open log form and the request it has in flight
ledgerVars == <<pilotRow, page, pilot, log, logType, llClockChange, preview, request>>

\* the calls that run loop step by loop step, and their local variables
stepVars == <<calls, locals>>

\* the ticks drafted for the pilot's personal clocks in the new-log form
clockVars == <<selectedClocks>>

\* a sequence of commits under observation: the pilots row it began with and
\* the sum of the tick deltas committed since
batchVars == <<start, committed>>

vars == <<fn, args, ret,
          pilotRow, page, pilot, log, logType, llClockChange, preview, request,
          calls, locals,
          selectedClocks,
          start, committed>>

(* ---------------------------- bounds ----------------------------------- *)

\* inputs range below zero down to -NegRange
NegRange == 3
\* license levels offered to the functions go up to LevelRange (above 12)
LevelRange == 14
\* progress values offered go up to ProgressRange (above the largest clock)
ProgressRange == 7
\* tick counts (total and pending) offered go up to TickRange (above 44)
TickRange == 50
\* stored ll_clock_change values of the log opened for editing go up to
\* MaxStoredChange
MaxStoredChange == 3
\* concurrent callers take levels within ConcLevels of the ends of 0..12 and
\* progress up to ConcLevels
ConcLevels == 2
\* concurrent callers take tick counts (total and pending) up to ConcTicks
ConcTicks == 5

LevelInputs == (0 - NegRange)..LevelRange
ProgressInputs == (0 - NegRange)..ProgressRange
TickInputs == (0 - NegRange)..TickRange

(* ------------------------- Math.min / Math.max ------------------------- *)

Min(a, b) == IF a < b THEN a ELSE b

Max(a, b) == IF a > b THEN a ELSE b

(* ------------------------- getLLClockSegments -------------------------- *)

\* mutant: the 3/4 band boundary is off by one (level 5 gets 4 segments)
getLLClockSegments_BandOff(ll) ==
    IF ll >= 1 /\ ll <= 4 THEN 3
    ELSE IF ll >= 5 /\ ll <= 9 THEN 4
    ELSE IF ll >= 10 /\ ll <= 12 THEN 5
    ELSE 3

getLLClockSegments(ll) ==
    IF ll >= 1 /\ ll <= 5 THEN 3
    ELSE IF ll >= 6 /\ ll <= 9 THEN 4
    ELSE IF ll >= 10 /\ ll <= 12 THEN 5
    ELSE 3

\* the pilot page's own copy of getLLClockSegments
PilotPage_getLLClockSegments(licenseLevel) ==
    IF licenseLevel >= 1 /\ licenseLevel <= 5 THEN 3
    ELSE IF licenseLevel >= 6 /\ licenseLevel <= 9 THEN 4
    ELSE IF licenseLevel >= 10 /\ licenseLevel <= 12 THEN 5
    ELSE 3

\* mutant: the database's default (levels outside 1..12) is 4 segments
get_ll_clock_segments_Default4(ll) ==
    IF ll >= 1 /\ ll <= 5 THEN 3
    ELSE IF ll >= 6 /\ ll <= 9 THEN 4
    ELSE IF ll >= 10 /\ ll <= 12 THEN 5
    ELSE 4

\* the SQL function get_ll_clock_segments(ll INTEGER)
get_ll_clock_segments(ll) ==
    IF ll >= 1 /\ ll <= 5 THEN 3
    ELSE IF ll >= 6 /\ ll <= 9 THEN 4
    ELSE IF ll >= 10 /\ ll <= 12 THEN 5
    ELSE 3

(* ------------------------- computeTotalLLTicks ------------------------- *)

\* the for loop: ll is the loop counter, ticks the accumulator
RECURSIVE TotalTicksLoop(_, _, _)
TotalTicksLoop(ll, licenseLevel, ticks) ==
    IF ll < licenseLevel
    THEN TotalTicksLoop(ll + 1, licenseLevel, ticks + getLLClockSegments(ll))
    ELSE ticks

\* mutant: the loop runs one level too far (ll <= licenseLevel)
RECURSIVE TotalTicksLoop_Inclusive(_, _, _)
TotalTicksLoop_Inclusive(ll, licenseLevel, ticks) ==
    IF ll <= licenseLevel
    THEN TotalTicksLoop_Inclusive(ll + 1, licenseLevel, ticks + getLLClockSegments(ll))
    ELSE ticks

computeTotalLLTicks_Inclusive(licenseLevel, progress) ==
    TotalTicksLoop_Inclusive(0, licenseLevel, 0) + progress

\* mutant: the loop starts at level 1, so level 0's clock is never counted
computeTotalLLTicks_FromOne(licenseLevel, progress) ==
    TotalTicksLoop(1, licenseLevel, 0) + progress

\* mutant: the partial progress of the current level is not added
computeTotalLLTicks_NoProgress(licenseLevel, progress) ==
    TotalTicksLoop(0, licenseLevel, 0)

computeTotalLLTicks(licenseLevel, progress) ==
    TotalTicksLoop(0, licenseLevel, 0) + progress

(* ------------------------- ticksToLevelProgress ------------------------ *)

\* the for loop: ll is the loop counter, remaining the ticks not yet placed
RECURSIVE LevelProgressLoop(_, _)
LevelProgressLoop(ll, remaining) ==
    IF ll < 12
    THEN IF remaining < getLLClockSegments(ll)
         THEN [level |-> ll, progress |-> remaining]
         ELSE LevelProgressLoop(ll + 1, remaining - getLLClockSegments(ll))
    ELSE [level |-> 12, progress |-> 0]

\* mutant: a full clock does not roll over (remaining <= seg)
RECURSIVE LevelProgressLoop_NoRoll(_, _)
LevelProgressLoop_NoRoll(ll, remaining) ==
    IF ll < 12
    THEN IF remaining <= getLLClockSegments(ll)
         THEN [level |-> ll, progress |-> remaining]
         ELSE LevelProgressLoop_NoRoll(ll + 1, remaining - getLLClockSegments(ll))
    ELSE [level |-> 12, progress |-> 0]

ticksToLevelProgress_NoRoll(totalTicks) ==
    LevelProgressLoop_NoRoll(0, Max(0, totalTicks))

\* mutant: the walk stops one level early (ll < 11)
RECURSIVE LevelProgressLoop_Short(_, _)
LevelProgressLoop_Short(ll, remaining) ==
    IF ll < 11
    THEN IF remaining < getLLClockSegments(ll)
         THEN [level |-> ll, progress |-> remaining]
         ELSE LevelProgressLoop_Short(ll + 1, remaining - getLLClockSegments(ll))
    ELSE [level |-> 12, progress |-> 0]

ticksToLevelProgress_Short(totalTicks) ==
    LevelProgressLoop_Short(0, Max(0, totalTicks))

\* mutant: negative totals are not clamped to 0
ticksToLevelProgress_NoClamp(totalTicks) ==
    LevelProgressLoop(0, totalTicks)

ticksToLevelProgress(totalTicks) ==
    LevelProgressLoop(0, Max(0, totalTicks))

(* ------------------------ computeLLClockDisplays ----------------------- *)

LLClockInfo(level, segments, filled, pending) ==
    [level |-> level, segments |-> segments, filled |-> filled, pending |-> pending]

\* the while (true) loop: one iteration per emitted display
RECURSIVE DisplaysLoop(_, _, _, _)
DisplaysLoop(ll, prog, remaining, displays) ==
    IF ll >= 12 THEN displays
    ELSE LET segments == getLLClockSegments(ll)
             filled == Min(prog, segments)
             available == segments - filled
             pending == Min(remaining, available)
             pushed == Append(displays, LLClockInfo(ll, segments, filled, pending))
         IN  IF remaining - pending <= 0
             THEN pushed
             ELSE DisplaysLoop(ll + 1, 0, remaining - pending, pushed)

\* mutant: prog is not reset to 0 when the loop moves to the next level
RECURSIVE DisplaysLoop_NoReset(_, _, _, _)
DisplaysLoop_NoReset(ll, prog, remaining, displays) ==
    IF ll >= 12 THEN displays
    ELSE LET segments == getLLClockSegments(ll)
             filled == Min(prog, segments)
             available == segments - filled
             pending == Min(remaining, available)
             pushed == Append(displays, LLClockInfo(ll, segments, filled, pending))
         IN  IF remaining - pending <= 0
             THEN pushed
             ELSE DisplaysLoop_NoReset(ll + 1, prog, remaining - pending, pushed)

computeLLClockDisplays_NoReset(licenseLevel, progress, pendingTicks) ==
    IF licenseLevel >= 12 THEN << >>
    ELSE DisplaysLoop_NoReset(licenseLevel, progress, pendingTicks, << >>)

\* mutant: the room of a clock ignores what is already filled
RECURSIVE DisplaysLoop_FullRoom(_, _, _, _)
DisplaysLoop_FullRoom(ll, prog, remaining, displays) ==
    IF ll >= 12 THEN displays
    ELSE LET segments == getLLClockSegments(ll)
             filled == Min(prog, segments)
             available == segments
             pending == Min(remaining, available)
             pushed == Append(displays, LLClockInfo(ll, segments, filled, pending))
         IN  IF remaining - pending <= 0
             THEN pushed
             ELSE DisplaysLoop_FullRoom(ll + 1, 0, remaining - pending, pushed)

computeLLClockDisplays_FullRoom(licenseLevel, progress, pendingTicks) ==
    IF licenseLevel >= 12 THEN << >>
    ELSE DisplaysLoop_FullRoom(licenseLevel, progress, pendingTicks, << >>)

\* mutant: the level cap is compared with > instead of >=, so level 12
\* is treated as a level that still has a clock
RECURSIVE DisplaysLoop_CapOff(_, _, _, _)
DisplaysLoop_CapOff(ll, prog, remaining, displays) ==
    IF ll > 12 THEN displays
    ELSE LET segments == getLLClockSegments(ll)
             filled == Min(prog, segments)
             available == segments - filled
             pending == Min(remaining, available)
             pushed == Append(displays, LLClockInfo(ll, segments, filled, pending))
         IN  IF remaining - pending <= 0
             THEN pushed
             ELSE DisplaysLoop_CapOff(ll + 1, 0, remaining - pending, pushed)

computeLLClockDisplays_CapOff(licenseLevel, progress, pendingTicks) ==
    IF licenseLevel > 12 THEN << >>
    ELSE DisplaysLoop_CapOff(licenseLevel, progress, pendingTicks, << >>)

\* mutant: the loop stops only when remaining is below 0, so pending ticks
\* that exactly fill a clock still open the next one
RECURSIVE DisplaysLoop_LateStop(_, _, _, _)
DisplaysLoop_LateStop(ll, prog, remaining, displays) ==
    IF ll >= 12 THEN displays
    ELSE LET segments == getLLClockSegments(ll)
             filled == Min(prog, segments)
             available == segments - filled
             pending == Min(remaining, available)
             pushed == Append(displays, LLClockInfo(ll, segments, filled, pending))
         IN  IF remaining - pending < 0
             THEN pushed
             ELSE DisplaysLoop_LateStop(ll + 1, 0, remaining - pending, pushed)

computeLLClockDisplays_LateStop(licenseLevel, progress, pendingTicks) ==
    IF licenseLevel >= 12 THEN << >>
    ELSE DisplaysLoop_LateStop(licenseLevel, progress, pendingTicks, << >>)

computeLLClockDisplays(licenseLevel, progress, pendingTicks) ==
    IF licenseLevel >= 12 THEN << >>
    ELSE DisplaysLoop(licenseLevel, progress, pendingTicks, << >>)

(* ---------------------------- the caller ------------------------------- *)

\* no value (null)
Null == [null |-> TRUE]

\* a row of the pilots table, reduced to its two LL columns
PilotRow(license_level, ll_clock_progress) ==
    [license_level |-> license_level, ll_clock_progress |-> ll_clock_progress]

\* the column defaults of a new pilots row
DefaultPilot == PilotRow(2, 0)

\* the pilot's uncompleted personal clocks, as the new-log page fetches them
Clocks == {"clock"}

\* selectedClocks with no entry ({})
NoClocks == [clockId \in {} |-> 0]

\* no log form is open and no request is in flight
NoForm ==
    /\ page = "pilot"
    /\ pilot = Null
    /\ log = Null
    /\ logType = "game"
    /\ llClockChange = 0
    /\ preview = << >>
    /\ request = Null
    /\ selectedClocks = NoClocks

\* no sequence of commits is under observation
NoBatch ==
    /\ start = Null
    /\ committed = 0

\* the callers that may run a function of the module at the same time
Callers == {1, 2}

\* a caller that runs nothing
NoCall == [fn |-> "none", args |-> << >>, pc |-> "off", ret |-> << >>, iters |-> 0]

\* a caller about to run fn on args
NewCall(f, a) == [fn |-> f, args |-> a, pc |-> "start", ret |-> << >>, iters |-> 0]

\* the local variables of a running call, before their declarations run
NoLocals == [ll |-> 0, ticks |-> 0, remaining |-> 0, prog |-> 0, displays |-> << >>]

\* no call is run step by step
NoSteps ==
    /\ calls = [c \in Callers |-> NoCall]
    /\ locals = [c \in Callers |-> NoLocals]

Init ==
    /\ fn = "idle"
    /\ args = << >>
    /\ ret = << >>
    /\ pilotRow = DefaultPilot
    /\ NoForm
    /\ NoSteps
    /\ NoBatch

CallGetLLClockSegments ==
    \E ll \in LevelInputs :
        /\ fn = "idle"
        /\ fn' = "getLLClockSegments"
        /\ args' = <<ll>>
        /\ ret' = getLLClockSegments(ll)
        /\ UNCHANGED ledgerVars
        /\ UNCHANGED stepVars
        /\ UNCHANGED clockVars
        /\ UNCHANGED batchVars

\* the pilot page calls its own copy of the segment table
CallPilotPageGetLLClockSegments ==
    \E licenseLevel \in LevelInputs :
        /\ fn = "idle"
        /\ fn' = "PilotPage_getLLClockSegments"
        /\ args' = <<licenseLevel>>
        /\ ret' = PilotPage_getLLClockSegments(licenseLevel)
        /\ UNCHANGED ledgerVars
        /\ UNCHANGED stepVars
        /\ UNCHANGED clockVars
        /\ UNCHANGED batchVars

\* the database evaluates its copy of the segment table
CallGetLlClockSegmentsSql ==
    \E ll \in LevelInputs :
        /\ fn = "idle"
        /\ fn' = "get_ll_clock_segments"
        /\ args' = <<ll>>
        /\ ret' = get_ll_clock_segments(ll)
        /\ UNCHANGED ledgerVars
        /\ UNCHANGED stepVars
        /\ UNCHANGED clockVars
        /\ UNCHANGED batchVars

CallComputeTotalLLTicks ==
    \E licenseLevel \in LevelInputs, progress \in ProgressInputs :
        /\ fn = "idle"
        /\ fn' = "computeTotalLLTicks"
        /\ args' = <<licenseLevel, progress>>
        /\ ret' = computeTotalLLTicks(licenseLevel, progress)
        /\ UNCHANGED ledgerVars
        /\ UNCHANGED stepVars
        /\ UNCHANGED clockVars
        /\ UNCHANGED batchVars

CallTicksToLevelProgress ==
    \E totalTicks \in TickInputs :
        /\ fn = "idle"
        /\ fn' = "ticksToLevelProgress"
        /\ args' = <<totalTicks>>
        /\ ret' = ticksToLevelProgress(totalTicks)
        /\ UNCHANGED ledgerVars
        /\ UNCHANGED stepVars
        /\ UNCHANGED clockVars
        /\ UNCHANGED batchVars

CallComputeLLClockDisplays ==
    \E licenseLevel \in LevelInputs, progress \in ProgressInputs,
       pendingTicks \in TickInputs :
        /\ fn = "idle"
        /\ fn' = "computeLLClockDisplays"
        /\ args' = <<licenseLevel, progress, pendingTicks>>
        /\ ret' = computeLLClockDisplays(licenseLevel, progress, pendingTicks)
        /\ UNCHANGED ledgerVars
        /\ UNCHANGED stepVars
        /\ UNCHANGED clockVars
        /\ UNCHANGED batchVars

\* the caller has consumed the result; nothing is kept between calls
Return ==
    /\ fn # "idle"
    /\ fn' = "idle"
    /\ args' = << >>
    /\ ret' = << >>
    /\ UNCHANGED ledgerVars
    /\ UNCHANGED stepVars
    /\ UNCHANGED clockVars
    /\ UNCHANGED batchVars

Next ==
    \/ CallGetLLClockSegments
    \/ CallPilotPageGetLLClockSegments
    \/ CallGetLlClockSegmentsSql
    \/ CallComputeTotalLLTicks
    \/ CallTicksToLevelProgress
    \/ CallComputeLLClockDisplays
    \/ Return

Spec == Init /\ [][Next]_vars

(* ------------------------ the log forms and the pilot ------------------ *)

\* the per-entry cap of the tick controls
MaxTicks == 25

\* the valid stored states of a pilot: a level below 12 with a clock that is
\* not yet full, or level 12 with progress 0
ValidPilots ==
    UNION { { PilotRow(l, p) : p \in 0..(getLLClockSegments(l) - 1) } : l \in 0..11 }
        \cup { PilotRow(12, 0) }

\* the LLClockDisplay component: the clocks it renders (none at level 12,
\* where it shows the MAX LEVEL text)
LLClockDisplay(licenseLevel, progress, pendingTicks) ==
    IF licenseLevel >= 12 THEN << >>
    ELSE computeLLClockDisplays(licenseLevel, progress, pendingTicks)

\* mutant: the log's delta is subtracted without the clamp at zero
EditLogBase_NoClamp(p, l) ==
    LET llTotalTicks == IF p # Null
                        THEN computeTotalLLTicks(p.license_level, p.ll_clock_progress)
                        ELSE 0
        llBaseTicks == llTotalTicks - (IF l # Null THEN l.ll_clock_change ELSE 0)
    IN  [llTotalTicks |-> llTotalTicks,
         llBaseTicks |-> llBaseTicks,
         baseLL |-> ticksToLevelProgress(llBaseTicks).level,
         baseLLProgress |-> ticksToLevelProgress(llBaseTicks).progress]

\* the edit page's base LL state: the pilot's total less this log's
\* original contribution, clamped at zero, and its (level, progress)
EditLogBase(p, l) ==
    LET llTotalTicks == IF p # Null
                        THEN computeTotalLLTicks(p.license_level, p.ll_clock_progress)
                        ELSE 0
        llBaseTicks == Max(0, llTotalTicks - (IF l # Null THEN l.ll_clock_change ELSE 0))
    IN  [llTotalTicks |-> llTotalTicks,
         llBaseTicks |-> llBaseTicks,
         baseLL |-> ticksToLevelProgress(llBaseTicks).level,
         baseLLProgress |-> ticksToLevelProgress(llBaseTicks).progress]

\* the LL clocks the new-log page renders for a drafted change
NewLogPreview(p, change) ==
    IF p = Null THEN << >>
    ELSE LLClockDisplay(p.license_level, p.ll_clock_progress, change)

\* mutant: the edit page previews on top of the pilot's current state, the
\* log's own ticks included
EditLogPreview_FromPilot(p, l, change) ==
    IF p = Null THEN << >>
    ELSE LLClockDisplay(p.license_level, p.ll_clock_progress, change)

\* the LL clocks the edit-log page renders for a drafted change
EditLogPreview(p, l, change) ==
    IF p = Null THEN << >>
    ELSE LLClockDisplay(EditLogBase(p, l).baseLL,
                        EditLogBase(p, l).baseLLProgress, change)

LedgerInit ==
    /\ fn = "idle"
    /\ args = << >>
    /\ ret = << >>
    /\ pilotRow \in ValidPilots
    /\ NoForm
    /\ NoSteps
    /\ NoBatch

\* the new-log page is opened (as a game log, or with ?type=trade); the
\* pilot has not been fetched yet
OpenNewLog ==
    /\ page = "pilot"
    /\ page' = "new"
    /\ \E type \in {"game", "trade"} :
          /\ logType' = type
          /\ llClockChange' = IF type = "trade" THEN 0 ELSE 1
    /\ pilot' = Null
    /\ preview' = << >>
    /\ selectedClocks' = NoClocks
    /\ UNCHANGED <<pilotRow, log, request>>
    /\ UNCHANGED callVars
    /\ UNCHANGED stepVars
    /\ UNCHANGED batchVars

\* the new-log page's fetch of the pilot returns the row
NewLogFetchPilot ==
    /\ page = "new"
    /\ pilot = Null
    /\ pilot' = pilotRow
    /\ preview' = NewLogPreview(pilotRow, llClockChange)
    /\ UNCHANGED <<pilotRow, page, log, logType, llClockChange, request>>
    /\ UNCHANGED callVars
    /\ UNCHANGED stepVars
    /\ UNCHANGED clockVars
    /\ UNCHANGED batchVars

\* the Game Session button
NewLogSetGame ==
    /\ page = "new"
    /\ logType' = "game"
    /\ llClockChange' = 1
    /\ preview' = NewLogPreview(pilot, 1)
    /\ UNCHANGED <<pilotRow, page, pilot, log, request>>
    /\ UNCHANGED callVars
    /\ UNCHANGED stepVars
    /\ UNCHANGED clockVars
    /\ UNCHANGED batchVars

\* the Trade / Other button
NewLogSetTrade ==
    /\ page = "new"
    /\ logType' = "trade"
    /\ llClockChange' = 0
    /\ preview' = NewLogPreview(pilot, 0)
    /\ UNCHANGED <<pilotRow, page, pilot, log, request>>
    /\ UNCHANGED callVars
    /\ UNCHANGED stepVars
    /\ UNCHANGED clockVars
    /\ UNCHANGED batchVars

\* mutant: the '-' button has no floor at 0
NewLogMinus_NoFloor ==
    /\ page = "new"
    /\ llClockChange' = llClockChange - 1
    /\ preview' = NewLogPreview(pilot, llClockChange - 1)
    /\ UNCHANGED <<pilotRow, page, pilot, log, logType, request>>
    /\ UNCHANGED callVars
    /\ UNCHANGED stepVars
    /\ UNCHANGED clockVars
    /\ UNCHANGED batchVars

\* the License Level '-' button of the new-log page
NewLogMinus ==
    /\ page = "new"
    /\ llClockChange' = Max(0, llClockChange - 1)
    /\ preview' = NewLogPreview(pilot, Max(0, llClockChange - 1))
    /\ UNCHANGED <<pilotRow, page, pilot, log, logType, request>>
    /\ UNCHANGED callVars
    /\ UNCHANGED stepVars
    /\ UNCHANGED clockVars
    /\ UNCHANGED batchVars

\* mutant: the '+' button also writes the previewed tick to the pilots row
NewLogPlus_Persists ==
    /\ page = "new"
    /\ llClockChange' = Min(25, llClockChange + 1)
    /\ preview' = << >>
    /\ pilotRow' = [license_level |-> pilotRow.license_level,
                    ll_clock_progress |-> pilotRow.ll_clock_progress + 1]
    /\ UNCHANGED <<page, pilot, log, logType, request>>
    /\ UNCHANGED callVars
    /\ UNCHANGED stepVars
    /\ UNCHANGED clockVars
    /\ UNCHANGED batchVars

\* the License Level '+' button of the new-log page
NewLogPlus ==
    /\ page = "new"
    /\ llClockChange' = Min(MaxTicks, llClockChange + 1)
    /\ preview' = NewLogPreview(pilot, Min(MaxTicks, llClockChange + 1))
    /\ UNCHANGED <<pilotRow, page, pilot, log, logType, request>>
    /\ UNCHANGED callVars
    /\ UNCHANGED stepVars
    /\ UNCHANGED clockVars
    /\ UNCHANGED batchVars

\* selectedClocks[clockId] || 0
Selected(clockId) ==
    IF clockId \in DOMAIN selectedClocks THEN selectedClocks[clockId] ELSE 0

\* mutant: a clock set to 0 keeps its entry
handleClockChange_KeepZero(prev, clockId, ticks) ==
    [id \in DOMAIN prev \cup {clockId} |-> IF id = clockId THEN ticks ELSE prev[id]]

\* handleClockChange's updater: ticks = 0 removes the clock's entry, any
\* other value sets it
handleClockChange(prev, clockId, ticks) ==
    IF ticks = 0
    THEN [id \in DOMAIN prev \ {clockId} |-> prev[id]]
    ELSE [id \in DOMAIN prev \cup {clockId} |-> IF id = clockId THEN ticks ELSE prev[id]]

\* the '-' button of a personal clock
ClockMinus ==
    /\ page = "new"
    /\ \E clockId \in Clocks :
          selectedClocks' = handleClockChange(selectedClocks, clockId,
                                              Max(0, Selected(clockId) - 1))
    /\ UNCHANGED ledgerVars
    /\ UNCHANGED callVars
    /\ UNCHANGED stepVars
    /\ UNCHANGED batchVars

\* the '+' button of a personal clock
ClockPlus ==
    /\ page = "new"
    /\ \E clockId \in Clocks :
          selectedClocks' = handleClockChange(selectedClocks, clockId,
                                              Min(MaxTicks, Selected(clockId) + 1))
    /\ UNCHANGED ledgerVars
    /\ UNCHANGED callVars
    /\ UNCHANGED stepVars
    /\ UNCHANGED batchVars

\* handleSubmit's clock_progress: one item per entry of selectedClocks (the
\* items are kept as a set, their order in the array is not modelled)
clockProgress(selected) ==
    { [clock_id |-> clockId, ticks_applied |-> selected[clockId]] :
          clockId \in DOMAIN selected }

\* handleSubmit of the new-log page: the drafted change goes out in a POST;
\* the submit button is disabled while a request is in flight
NewLogSubmit ==
    /\ page = "new"
    /\ request = Null
    /\ request' = [method |-> "POST",
                    ll_clock_change |-> llClockChange,
                    clock_progress |-> clockProgress(selectedClocks)]
    /\ UNCHANGED <<pilotRow, page, pilot, log, logType, llClockChange, preview>>
    /\ UNCHANGED callVars
    /\ UNCHANGED stepVars
    /\ UNCHANGED clockVars
    /\ UNCHANGED batchVars

\* the edit-log page is opened on a stored log: its fields fill the form;
\* the pilot fetch gives the row, or nothing
OpenEditLog ==
    /\ page = "pilot"
    /\ page' = "edit"
    /\ \E change \in 0..MaxStoredChange, p \in {pilotRow, Null} :
          /\ log' = [ll_clock_change |-> change]
          /\ llClockChange' = change
          /\ pilot' = p
          /\ preview' = EditLogPreview(p, [ll_clock_change |-> change], change)
    /\ UNCHANGED <<pilotRow, logType, request>>
    /\ UNCHANGED callVars
    /\ UNCHANGED stepVars
    /\ UNCHANGED clockVars
    /\ UNCHANGED batchVars

\* the License Level '-' button of the edit-log page
EditLogMinus ==
    /\ page = "edit"
    /\ llClockChange' = Max(0, llClockChange - 1)
    /\ preview' = EditLogPreview(pilot, log, Max(0, llClockChange - 1))
    /\ UNCHANGED <<pilotRow, page, pilot, log, logType, request>>
    /\ UNCHANGED callVars
    /\ UNCHANGED stepVars
    /\ UNCHANGED clockVars
    /\ UNCHANGED batchVars

\* the License Level '+' button of the edit-log page
EditLogPlus ==
    /\ page = "edit"
    /\ llClockChange' = Min(MaxTicks, llClockChange + 1)
    /\ preview' = EditLogPreview(pilot, log, Min(MaxTicks, llClockChange + 1))
    /\ UNCHANGED <<pilotRow, page, pilot, log, logType, request>>
    /\ UNCHANGED callVars
    /\ UNCHANGED stepVars
    /\ UNCHANGED clockVars
    /\ UNCHANGED batchVars

\* handleSubmit of the edit-log page: the drafted change goes out in a PUT
EditLogSubmit ==
    /\ page = "edit"
    /\ request = Null
    /\ request' = [method |-> "PUT", ll_clock_change |-> llClockChange]
    /\ UNCHANGED <<pilotRow, page, pilot, log, logType, llClockChange, preview>>
    /\ UNCHANGED callVars
    /\ UNCHANGED stepVars
    /\ UNCHANGED clockVars
    /\ UNCHANGED batchVars

\* the form is left: by its Cancel link, or by the navigation that follows
\* an accepted request
LeaveForm ==
    /\ page' = "pilot"
    /\ pilot' = Null
    /\ log' = Null
    /\ logType' = "game"
    /\ llClockChange' = 0
    /\ preview' = << >>
    /\ selectedClocks' = NoClocks

\* the Cancel link
Cancel ==
    /\ page \in {"new", "edit"}
    /\ request = Null
    /\ LeaveForm
    /\ UNCHANGED <<pilotRow, request>>
    /\ UNCHANGED callVars
    /\ UNCHANGED stepVars
    /\ UNCHANGED batchVars

\* the state the commit workflow persists: the total ticks plus the delta,
\* through the round trip
CommitTicks(row, delta) ==
    LET state == ticksToLevelProgress(
                     computeTotalLLTicks(row.license_level, row.ll_clock_progress)
                     + delta)
    IN  PilotRow(state.level, state.progress)

\* the commit workflow accepts a POST: the log's ticks are added to the
\* pilot, and the page navigates back to the pilot
CommitCreate ==
    /\ request # Null
    /\ request.method = "POST"
    /\ pilotRow' = CommitTicks(pilotRow, request.ll_clock_change)
    /\ request' = Null
    /\ LeaveForm
    /\ UNCHANGED callVars
    /\ UNCHANGED stepVars
    /\ UNCHANGED batchVars

\* the commit workflow accepts a PUT: the log's old ticks are taken out of
\* the pilot (not below zero) and the new ones added
CommitUpdate ==
    /\ request # Null
    /\ request.method = "PUT"
    /\ pilotRow' = CommitTicks(
                      PilotRow(EditLogBase(pilotRow, log).baseLL,
                               EditLogBase(pilotRow, log).baseLLProgress),
                      request.ll_clock_change)
    /\ request' = Null
    /\ LeaveForm
    /\ UNCHANGED callVars
    /\ UNCHANGED stepVars
    /\ UNCHANGED batchVars

\* the request fails (response not ok): an error is shown and the form stays
RequestFails ==
    /\ request # Null
    /\ request' = Null
    /\ UNCHANGED <<pilotRow, page, pilot, log, logType, llClockChange, preview>>
    /\ UNCHANGED callVars
    /\ UNCHANGED stepVars
    /\ UNCHANGED clockVars
    /\ UNCHANGED batchVars

LedgerNext ==
    \/ OpenNewLog
    \/ NewLogFetchPilot
    \/ NewLogSetGame
    \/ NewLogSetTrade
    \/ NewLogMinus
    \/ NewLogPlus
    \/ NewLogSubmit
    \/ OpenEditLog
    \/ EditLogMinus
    \/ EditLogPlus
    \/ EditLogSubmit
    \/ Cancel
    \/ CommitCreate
    \/ CommitUpdate
    \/ RequestFails

LedgerSpec == LedgerInit /\ [][LedgerNext]_vars

\* the new-log page with its personal clock controls
ClockNext ==
    \/ OpenNewLog
    \/ ClockMinus
    \/ ClockPlus
    \/ NewLogSubmit
    \/ Cancel
    \/ CommitCreate
    \/ RequestFails

ClockSpec == Init /\ [][ClockNext]_vars

(* -------------------- commits applied one after another ---------------- *)

\* the sums of deltas followed go up to BatchTicks (above 44)
BatchTicks == 50

\* a pilot whose commits are followed from any valid stored state
BatchInit ==
    /\ fn = "idle"
    /\ args = << >>
    /\ ret = << >>
    /\ pilotRow \in ValidPilots
    /\ NoForm
    /\ NoSteps
    /\ start = pilotRow
    /\ committed = 0

\* the commit workflow persists a log of delta ticks
Commit ==
    /\ \E delta \in 0..MaxTicks :
          /\ committed + delta <= BatchTicks
          /\ pilotRow' = CommitTicks(pilotRow, delta)
          /\ committed' = committed + delta
    /\ UNCHANGED start
    /\ UNCHANGED <<page, pilot, log, logType, llClockChange, preview, request>>
    /\ UNCHANGED callVars
    /\ UNCHANGED stepVars
    /\ UNCHANGED clockVars

BatchNext == Commit

BatchSpec == BatchInit /\ [][BatchNext]_vars

(* ----------------- the functions, loop step by loop step --------------- *)

\* mutant: the locals are module-level variables shared by every call
Own_Shared(c) == 1

\* each call has its own local variables (let / const inside the function)
Own(c) == c

\* caller c's call and locals become call and loc
Step(c, call, loc) ==
    /\ calls' = [calls EXCEPT ![c] = call]
    /\ locals' = [locals EXCEPT ![Own(c)] = loc]
    /\ UNCHANGED callVars
    /\ UNCHANGED ledgerVars
    /\ UNCHANGED clockVars
    /\ UNCHANGED batchVars

\* caller c's call returns value (ret holds nothing, or the one value)
Returned(c, value) == [calls[c] EXCEPT !.pc = "done", !.ret = <<value>>]

\* caller c's call is at the head of its loop, having run n more iterations
Looping(c, n) == [calls[c] EXCEPT !.pc = "loop", !.iters = @ + n]

\* getLLClockSegments has no loop: it runs in one step
SegmentsRun(c) ==
    /\ calls[c].pc = "start"
    /\ calls[c].fn = "getLLClockSegments"
    /\ Step(c, Returned(c, getLLClockSegments(calls[c].args[1])), locals[Own(c)])

\* computeTotalLLTicks: let ticks = 0; let ll = 0
TotalTicksEnter(c) ==
    /\ calls[c].pc = "start"
    /\ calls[c].fn = "computeTotalLLTicks"
    /\ Step(c, Looping(c, 0), [locals[Own(c)] EXCEPT !.ticks = 0, !.ll = 0])

\* computeTotalLLTicks: one iteration of the for loop
TotalTicksIterate(c) ==
    /\ calls[c].pc = "loop"
    /\ calls[c].fn = "computeTotalLLTicks"
    /\ locals[Own(c)].ll < calls[c].args[1]
    /\ Step(c, Looping(c, 1),
            [locals[Own(c)] EXCEPT
                !.ticks = @ + getLLClockSegments(locals[Own(c)].ll),
                !.ll = @ + 1])

\* computeTotalLLTicks: the loop is over, return ticks + progress
TotalTicksReturn(c) ==
    /\ calls[c].pc = "loop"
    /\ calls[c].fn = "computeTotalLLTicks"
    /\ ~(locals[Own(c)].ll < calls[c].args[1])
    /\ Step(c, Returned(c, locals[Own(c)].ticks + calls[c].args[2]), locals[Own(c)])

\* ticksToLevelProgress: let remaining = Math.max(0, totalTicks); let ll = 0
LevelProgressEnter(c) ==
    /\ calls[c].pc = "start"
    /\ calls[c].fn = "ticksToLevelProgress"
    /\ Step(c, Looping(c, 0),
            [locals[Own(c)] EXCEPT !.remaining = Max(0, calls[c].args[1]), !.ll = 0])

\* mutant: the loop does not advance to the next level
LevelProgressIterate_NoAdvance(c) ==
    /\ calls[c].pc = "loop"
    /\ calls[c].fn = "ticksToLevelProgress"
    /\ locals[Own(c)].ll < 12
    /\ LET loc == locals[Own(c)]
           seg == getLLClockSegments(loc.ll)
       IN  IF loc.remaining < seg
           THEN Step(c, [Returned(c, [level |-> loc.ll, progress |-> loc.remaining])
                            EXCEPT !.iters = @ + 1], loc)
           ELSE Step(c, Looping(c, 1), [loc EXCEPT !.remaining = @ - seg])

\* ticksToLevelProgress: one iteration of the for loop, which inspects
\* level ll and returns or moves on
LevelProgressIterate(c) ==
    /\ calls[c].pc = "loop"
    /\ calls[c].fn = "ticksToLevelProgress"
    /\ locals[Own(c)].ll < 12
    /\ LET loc == locals[Own(c)]
           seg == getLLClockSegments(loc.ll)
       IN  IF loc.remaining < seg
           THEN Step(c, [Returned(c, [level |-> loc.ll, progress |-> loc.remaining])
                            EXCEPT !.iters = @ + 1], loc)
           ELSE Step(c, Looping(c, 1),
                     [loc EXCEPT !.remaining = @ - seg, !.ll = @ + 1])

\* ticksToLevelProgress: the loop ran through level 11, return {12, 0}
LevelProgressReturn(c) ==
    /\ calls[c].pc = "loop"
    /\ calls[c].fn = "ticksToLevelProgress"
    /\ ~(locals[Own(c)].ll < 12)
    /\ Step(c, Returned(c, [level |-> 12, progress |-> 0]), locals[Own(c)])

\* computeLLClockDisplays: the early return at level 12, or the
\* declarations of displays, remaining, ll and prog
DisplaysEnter(c) ==
    /\ calls[c].pc = "start"
    /\ calls[c].fn = "computeLLClockDisplays"
    /\ IF calls[c].args[1] >= 12
       THEN Step(c, Returned(c, << >>), locals[Own(c)])
       ELSE Step(c, Looping(c, 0),
                 [locals[Own(c)] EXCEPT !.displays = << >>,
                                        !.remaining = calls[c].args[3],
                                        !.ll = calls[c].args[1],
                                        !.prog = calls[c].args[2]])

\* computeLLClockDisplays: one iteration of the while loop
DisplaysIterate(c) ==
    /\ calls[c].pc = "loop"
    /\ calls[c].fn = "computeLLClockDisplays"
    /\ LET loc == locals[Own(c)]
           segments == getLLClockSegments(loc.ll)
           filled == Min(loc.prog, segments)
           available == segments - filled
           pending == Min(loc.remaining, available)
           pushed == Append(loc.displays, LLClockInfo(loc.ll, segments, filled, pending))
       IN  IF loc.ll >= 12
           THEN Step(c, Returned(c, loc.displays), loc)
           ELSE IF loc.remaining - pending <= 0
           THEN Step(c, [Returned(c, pushed) EXCEPT !.iters = @ + 1],
                     [loc EXCEPT !.displays = pushed, !.remaining = @ - pending])
           ELSE Step(c, Looping(c, 1),
                     [loc EXCEPT !.displays = pushed, !.remaining = @ - pending,
                                 !.ll = @ + 1, !.prog = 0])

\* the calls on every integer input of the ranges
AllCalls ==
    { NewCall("getLLClockSegments", <<l>>) : l \in LevelInputs }
    \cup { NewCall("computeTotalLLTicks", <<l, p>>) :
              l \in LevelInputs, p \in ProgressInputs }
    \cup { NewCall("ticksToLevelProgress", <<t>>) : t \in TickInputs }
    \cup { NewCall("computeLLClockDisplays", <<l, p, n>>) :
              l \in LevelInputs, p \in ProgressInputs, n \in TickInputs }

\* the calls concurrent callers make
ConcCalls ==
    { NewCall("getLLClockSegments", <<l>>) : l \in (12 - ConcLevels)..12 }
    \cup { NewCall("computeTotalLLTicks", <<l, p>>) :
              l \in 0..ConcLevels, p \in 0..ConcLevels }
    \cup { NewCall("ticksToLevelProgress", <<t>>) :
              t \in (0..ConcTicks) \cup {computeTotalLLTicks(12, 0)} }
    \cup { NewCall("computeLLClockDisplays", <<l, p, n>>) :
              l \in (12 - ConcLevels)..12, p \in 0..ConcLevels, n \in 0..ConcTicks }

\* nothing but the step-by-step calls is going on
OnlySteps ==
    /\ fn = "idle"
    /\ args = << >>
    /\ ret = << >>
    /\ pilotRow = DefaultPilot
    /\ NoForm
    /\ NoBatch

\* one caller, any call
LoopInit ==
    /\ OnlySteps
    /\ \E call \in AllCalls : calls = [c \in Callers |-> IF c = 1 THEN call ELSE NoCall]
    /\ locals = [c \in Callers |-> NoLocals]

\* every caller runs a call
ConcInit ==
    /\ OnlySteps
    /\ calls \in [Callers -> ConcCalls]
    /\ locals = [c \in Callers |-> NoLocals]

StepNext ==
    \E c \in Callers :
        \/ SegmentsRun(c)
        \/ TotalTicksEnter(c)
        \/ TotalTicksIterate(c)
        \/ TotalTicksReturn(c)
        \/ LevelProgressEnter(c)
        \/ LevelProgressIterate(c)
        \/ LevelProgressReturn(c)
        \/ DisplaysEnter(c)
        \/ DisplaysIterate(c)

\* a function runs to completion once called
LoopSpec == LoopInit /\ [][StepNext]_vars /\ WF_vars(StepNext)

\* the callers' steps interleave in any order
ConcSpec == ConcInit /\ [][StepNext]_vars

(* ------------------------------ claims --------------------------------- *)

\* the sum of getLLClockSegments(l) for l in a..b (0 when a > b)
RECURSIVE SegmentsFromTo(_, _)
SegmentsFromTo(a, b) ==
    IF a > b THEN 0 ELSE getLLClockSegments(b) + SegmentsFromTo(a, b - 1)

\* the sum of the pending fields of a sequence of displays
RECURSIVE SumPending(_)
SumPending(displays) ==
    IF displays = << >> THEN 0
    ELSE displays[Len(displays)].pending
         + SumPending(SubSeq(displays, 1, Len(displays) - 1))

\* the sum of the pending fields of the first n displays
SumPendingBefore(displays, n) == SumPending(SubSeq(displays, 1, n - 1))

\* C1: round trip. For every level L in 0..11 and progress P in
\* 0..getLLClockSegments(L)-1, ticksToLevelProgress(computeTotalLLTicks(L, P))
\* is exactly {level: L, progress: P}; in particular ticksToLevelProgress(7)
\* is {level: 2, progress: 1}.
C1_RoundTrip ==
    /\ ( /\ fn = "computeTotalLLTicks"
         /\ args[1] \in 0..11
         /\ args[2] \in 0..(getLLClockSegments(args[1]) - 1) )
       => ticksToLevelProgress(ret) = [level |-> args[1], progress |-> args[2]]
    /\ (fn = "ticksToLevelProgress" /\ args = <<7>>)
       => ret = [level |-> 2, progress |-> 1]

C1_Witness ==
    /\ fn = "computeTotalLLTicks"
    /\ args = <<11, 4>>
    /\ ret = 43
    /\ ticksToLevelProgress(ret) = [level |-> 11, progress |-> 4]

\* the room left in levels currentLevel..11: what the starting clock still
\* holds plus every later clock in full; 0 at level 12
RemainingRoom(currentLevel, progress) ==
    IF currentLevel >= 12 THEN 0
    ELSE (getLLClockSegments(currentLevel)
            - Min(progress, getLLClockSegments(currentLevel)))
         + SegmentsFromTo(currentLevel + 1, 11)

\* C2: pending-sum guarantee. For currentLevel in 0..12, progress >= 0 and
\* pendingTicks >= 0 the pending fields of the emitted displays sum to
\* min(pendingTicks, R), R being the room left in levels currentLevel..11.
C2_PendingSum ==
    ( /\ fn = "computeLLClockDisplays"
      /\ args[1] \in 0..12
      /\ args[2] >= 0
      /\ args[3] >= 0 )
    => SumPending(ret) = Min(args[3], RemainingRoom(args[1], args[2]))

C2_Witness ==
    /\ fn = "computeLLClockDisplays"
    /\ args = <<9, 1, 50>>
    /\ Len(ret) = 3
    /\ SumPending(ret) = 13

\* C3: the segment table. For every integer l, getLLClockSegments(l) is 3
\* when l is in 1..5 or outside 1..12, 4 when l is in 6..9 and 5 when l is
\* in 10..12; the result is always one of 3, 4, 5.
C3_SegmentTable ==
    fn = "getLLClockSegments" =>
        /\ ret \in {3, 4, 5}
        /\ (args[1] \in 1..5 \/ args[1] \notin 1..12) => ret = 3
        /\ args[1] \in 6..9 => ret = 4
        /\ args[1] \in 10..12 => ret = 5
        /\ args[1] = 5 => ret = 3
        /\ args[1] = 6 => ret = 4
        /\ args[1] = 10 => ret = 5

C3_Witness ==
    /\ fn = "getLLClockSegments"
    /\ args[1] = 0 - 1
    /\ ret = 3

\* C4: computeTotalLLTicks(currentLevel, progress) is the sum of
\* getLLClockSegments(l) for l in 0..currentLevel-1 plus progress
\* (computeTotalLLTicks(2, 1) = 7); for currentLevel <= 0 it is exactly
\* progress; for non-negative inputs it is non-negative.
C4_TotalIsSum ==
    fn = "computeTotalLLTicks" =>
        /\ ret = SegmentsFromTo(0, args[1] - 1) + args[2]
        /\ args[1] <= 0 => ret = args[2]
        /\ (args[1] >= 0 /\ args[2] >= 0) => ret >= 0
        /\ args = <<2, 1>> => ret = 7

C4_Witness ==
    /\ fn = "computeTotalLLTicks"
    /\ args = <<2, 1>>
    /\ ret = 7

\* C5: saturation. For every t >= computeTotalLLTicks(12, 0) = 44,
\* ticksToLevelProgress(t) is {level: 12, progress: 0}; for every t below
\* that threshold the returned level is below 12.
C5_Saturation ==
    /\ computeTotalLLTicks(12, 0) = 44
    /\ fn = "ticksToLevelProgress" =>
        IF args[1] >= computeTotalLLTicks(12, 0)
        THEN ret = [level |-> 12, progress |-> 0]
        ELSE ret.level < 12

C5_Witness ==
    /\ fn = "ticksToLevelProgress"
    /\ args[1] > 44
    /\ ret = [level |-> 12, progress |-> 0]

\* C6: monotonicity. For a fixed level computeTotalLLTicks(L, P) is strictly
\* increasing in P, and for L >= 1 computeTotalLLTicks(L, 0) is above
\* computeTotalLLTicks(L-1, getLLClockSegments(L-1)-1).
C6_Monotonic ==
    fn = "computeTotalLLTicks" =>
        /\ \A p \in ProgressInputs :
              p > args[2] => computeTotalLLTicks(args[1], p) > ret
        /\ (args[1] >= 1 /\ args[2] = 0) =>
              ret > computeTotalLLTicks(args[1] - 1,
                                        getLLClockSegments(args[1] - 1) - 1)

C6_Witness ==
    /\ fn = "computeTotalLLTicks"
    /\ args = <<6, 0>>
    /\ ret = 18
    /\ computeTotalLLTicks(5, 2) = 17

\* C7: for every currentLevel >= 12, whatever progress and pendingTicks are,
\* computeLLClockDisplays returns the empty sequence.
C7_MaxedOutEmpty ==
    (fn = "computeLLClockDisplays" /\ args[1] >= 12) => ret = << >>

C7_Witness ==
    /\ fn = "computeLLClockDisplays"
    /\ args = <<12, 0, 10>>
    /\ ret = << >>

\* C8: per-clock allocation. For currentLevel < 12 each emitted display at
\* level l has segments = getLLClockSegments(l), the first has
\* filled = min(progress, segments), and each has
\* pending = min(remaining, segments - filled) where remaining is
\* pendingTicks less the pending of the displays before it;
\* computeLLClockDisplays(2, 1, 5) is exactly
\* [{2, 3, 1, 2}, {3, 3, 0, 3}].
C8_Allocation ==
    (fn = "computeLLClockDisplays" /\ args[1] < 12) =>
        /\ Len(ret) >= 1
        /\ ret[1].filled = Min(args[2], ret[1].segments)
        /\ \A i \in 1..Len(ret) :
              /\ ret[i].segments = getLLClockSegments(ret[i].level)
              /\ ret[i].pending =
                    Min(args[3] - SumPendingBefore(ret, i),
                        ret[i].segments - ret[i].filled)
        /\ args = <<2, 1, 5>> =>
              ret = << LLClockInfo(2, 3, 1, 2), LLClockInfo(3, 3, 0, 3) >>

C8_Witness ==
    /\ fn = "computeLLClockDisplays"
    /\ args = <<2, 1, 5>>
    /\ ret = << LLClockInfo(2, 3, 1, 2), LLClockInfo(3, 3, 0, 3) >>

\* C9: for every negative t, ticksToLevelProgress(t) is what it is for
\* t = 0, {level: 0, progress: 0}; the returned progress is never negative.
C9_NegativeClamped ==
    fn = "ticksToLevelProgress" =>
        /\ args[1] < 0 =>
              /\ ret = [level |-> 0, progress |-> 0]
              /\ ret = ticksToLevelProgress(0)
        /\ ret.progress >= 0

C9_Witness ==
    /\ fn = "ticksToLevelProgress"
    /\ args[1] < 0
    /\ ret = [level |-> 0, progress |-> 0]

\* C10: output range of the inverse mapping. The level is in 0..12; below
\* level 12 the progress is in 0..getLLClockSegments(level)-1; at level 12
\* the progress is exactly 0.
C10_OutputRange ==
    fn = "ticksToLevelProgress" =>
        /\ ret.level \in 0..12
        /\ ret.level < 12 =>
              (0 <= ret.progress /\ ret.progress < getLLClockSegments(ret.level))
        /\ ret.level = 12 => ret.progress = 0

C10_Witness ==
    /\ fn = "ticksToLevelProgress"
    /\ args = <<17>>
    /\ ret = [level |-> 5, progress |-> 2]

\* the last display of a non-empty sequence of displays
LastDisplay(displays) == displays[Len(displays)]

\* the pending ticks beyond the room left in levels currentLevel..11 are
\* dropped: the result ends with a full level-11 clock and the pending
\* fields sum to the room, not to pendingTicks
SurplusDropped ==
    /\ Len(ret) >= 1
    /\ LastDisplay(ret).level = 11
    /\ LastDisplay(ret).filled + LastDisplay(ret).pending
          = LastDisplay(ret).segments
    /\ SumPending(ret) = RemainingRoom(args[1], args[2])
    /\ SumPending(ret) < args[3]

\* C13 as stated: for every input no display has level >= 12, and whenever
\* pendingTicks exceeds the room left in levels currentLevel..11 the result
\* ends with a completely full level-11 display and the surplus is in no
\* display.
C13_ExcessDroppedEveryLevel ==
    fn = "computeLLClockDisplays" =>
        /\ \A i \in 1..Len(ret) : ret[i].level < 12
        /\ args[3] > RemainingRoom(args[1], args[2]) => SurplusDropped

\* C13 as amended: for every input no display has level >= 12, and for
\* currentLevel < 12, whenever pendingTicks exceeds the room left in levels
\* currentLevel..11 the result ends with a completely full level-11 display
\* and the surplus is in no display (for currentLevel >= 12 the result is
\* empty).
C13_ExcessDropped ==
    fn = "computeLLClockDisplays" =>
        /\ \A i \in 1..Len(ret) : ret[i].level < 12
        /\ (args[1] < 12 /\ args[3] > RemainingRoom(args[1], args[2]))
              => SurplusDropped

C13_Witness ==
    /\ fn = "computeLLClockDisplays"
    /\ args = <<10, 2, 50>>
    /\ Len(ret) = 2
    /\ LastDisplay(ret) = LLClockInfo(11, 5, 0, 5)
    /\ SumPending(ret) = 8

\* C14: out-of-range progress is clamped. For every integer progress,
\* negative ones included, and every currentLevel < 12, each emitted display
\* has 0 <= filled <= segments.
C14_FilledClamped ==
    (fn = "computeLLClockDisplays" /\ args[1] < 12) =>
        \A i \in 1..Len(ret) :
            0 <= ret[i].filled /\ ret[i].filled <= ret[i].segments

\* C15: negative pending ticks. For currentLevel < 12, valid progress and
\* pendingTicks < 0 the result is exactly one display whose pending is 0.
C15_NegativePendingZero ==
    ( /\ fn = "computeLLClockDisplays"
      /\ args[1] < 12
      /\ 0 <= args[2]
      /\ args[2] <= getLLClockSegments(args[1])
      /\ args[3] < 0 )
    => (Len(ret) = 1 /\ ret[1].pending = 0)

C17_ConsecutiveLevels ==
    (fn = "computeLLClockDisplays" /\ args[1] < 12) =>
        /\ Len(ret) >= 1
        /\ \A i \in 1..Len(ret) : ret[i].level = args[1] + (i - 1)
        /\ \A i \in 2..Len(ret) : ret[i].filled = 0

C17_Witness ==
    /\ fn = "computeLLClockDisplays"
    /\ args = <<4, 2, 6>>
    /\ Len(ret) = 3
    /\ ret[3] = LLClockInfo(6, 4, 0, 2)

\* a POST carrying a single tick is being accepted by the commit workflow
SingleTickCommit ==
    /\ request # Null
    /\ request.method = "POST"
    /\ request.ll_clock_change = 1
    /\ request' = Null
    /\ page' = "pilot"

\* C11: level progression is a linear chain. A single-tick commit takes
\* (l, p) with l < 12 to (l, p+1) when p+1 < segments(l) and to (l+1, 0)
\* exactly when p+1 = segments(l); it leaves (12, 0) at (12, 0). So the level
\* never decreases, never skips a level, and level 12 is terminal.
C11_LinearChain ==
    [][ SingleTickCommit =>
          LET l == pilotRow.license_level
              p == pilotRow.ll_clock_progress
          IN  /\ l = 12 => pilotRow' = PilotRow(12, 0)
              /\ (l < 12 /\ p + 1 < getLLClockSegments(l))
                    => pilotRow' = PilotRow(l, p + 1)
              /\ (l < 12 /\ p + 1 = getLLClockSegments(l))
                    => pilotRow' = PilotRow(l + 1, 0)
              /\ pilotRow'.license_level >= l
              /\ pilotRow'.license_level <= l + 1
              /\ pilotRow'.license_level \in 0..12
              /\ pilotRow'.license_level = l + 1
                    <=> (l < 12 /\ p + 1 = getLLClockSegments(l))
              /\ (pilotRow'.license_level < 12 =>
                    pilotRow'.ll_clock_progress
                        \in 0..(getLLClockSegments(pilotRow'.license_level) - 1))
              /\ (pilotRow'.license_level = 12 =>
                    pilotRow'.ll_clock_progress = 0) ]_vars

\* a single tick is in flight for a pilot whose clock it will complete
C11_Witness ==
    /\ request # Null
    /\ request.method = "POST"
    /\ request.ll_clock_change = 1
    /\ pilotRow = PilotRow(9, 3)
    /\ CommitTicks(pilotRow, 1) = PilotRow(10, 0)

\* C12: the edit page's base state. The base tick count is
\* max(0, total ticks of the pilot - the log's stored delta), never negative;
\* the base (level, progress) is the inverse mapping of that count and is
\* what the preview starts from; when the stored delta exceeds the pilot's
\* total the base state is (0, 0).
C12_EditBase ==
    (page = "edit" /\ pilot # Null) =>
        LET b == EditLogBase(pilot, log)
            total == SegmentsFromTo(0, pilot.license_level - 1)
                        + pilot.ll_clock_progress
            change == log.ll_clock_change
        IN  /\ b.llBaseTicks = (IF total - change > 0 THEN total - change ELSE 0)
            /\ b.llBaseTicks >= 0
            /\ b.llBaseTicks < 44 =>
                  /\ b.baseLL \in 0..11
                  /\ b.baseLLProgress \in 0..(getLLClockSegments(b.baseLL) - 1)
                  /\ SegmentsFromTo(0, b.baseLL - 1) + b.baseLLProgress
                        = b.llBaseTicks
            /\ b.llBaseTicks >= 44 => (b.baseLL = 12 /\ b.baseLLProgress = 0)
            /\ change > total => (b.baseLL = 0 /\ b.baseLLProgress = 0)
            /\ b.baseLL < 12 =>
                  /\ Len(preview) >= 1
                  /\ preview[1].level = b.baseLL
                  /\ preview[1].filled = b.baseLLProgress
            /\ b.baseLL >= 12 => preview = << >>

C12_Witness ==
    /\ page = "edit"
    /\ pilot = PilotRow(0, 1)
    /\ log = [ll_clock_change |-> 3]
    /\ EditLogBase(pilot, log).llBaseTicks = 0
    /\ llClockChange = 2
    /\ preview = << LLClockInfo(0, 3, 0, 2) >>

\* C18: the preview never changes persisted pilot state. Whatever is
\* previewed or drafted in the new-log and edit-log forms, the pilots row
\* changes only in the step in which the commit workflow accepts a
\* submitted request.
C18_PreviewKeepsPilot ==
    [][ pilotRow' # pilotRow =>
          /\ request # Null
          /\ request' = Null
          /\ page \in {"new", "edit"}
          /\ page' = "pilot" ]_vars

\* a preview that crosses a level boundary is on screen and the pilots row
\* is what it was
C18_Witness ==
    /\ page = "new"
    /\ pilotRow = PilotRow(2, 1)
    /\ pilot = pilotRow
    /\ llClockChange = 5
    /\ request = Null
    /\ preview = << LLClockInfo(2, 3, 1, 2), LLClockInfo(3, 3, 0, 3) >>

\* what a call returns when it runs alone
Alone(call) ==
    CASE call.fn = "getLLClockSegments" -> getLLClockSegments(call.args[1])
      [] call.fn = "computeTotalLLTicks" ->
            computeTotalLLTicks(call.args[1], call.args[2])
      [] call.fn = "ticksToLevelProgress" -> ticksToLevelProgress(call.args[1])
      [] call.fn = "computeLLClockDisplays" ->
            computeLLClockDisplays(call.args[1], call.args[2], call.args[3])

\* C19: calls are independent. However the loop steps of concurrent calls
\* interleave, each call returns what it returns when run alone.
C19_Independent ==
    \A c \in Callers :
        calls[c].pc = "done" => calls[c].ret = <<Alone(calls[c])>>

\* caller 1 has returned two displays while caller 2 is inside its loop
C19_Witness ==
    /\ calls[1].fn = "computeLLClockDisplays"
    /\ calls[1].args = <<10, 1, 5>>
    /\ calls[1].pc = "done"
    /\ calls[1].ret = << << LLClockInfo(10, 5, 1, 4), LLClockInfo(11, 5, 0, 1) >> >>
    /\ calls[2].fn = "ticksToLevelProgress"
    /\ calls[2].args = <<5>>
    /\ calls[2].pc = "loop"
    /\ calls[2].iters = 1

\* the iterations a call has run stay within the bound of its loop
LoopBounds ==
    \A c \in Callers :
        /\ calls[c].fn = "computeTotalLLTicks"
              => calls[c].iters <= Max(0, calls[c].args[1])
        /\ calls[c].fn = "ticksToLevelProgress" => calls[c].iters <= 12
        /\ calls[c].fn = "computeLLClockDisplays" =>
              /\ calls[c].iters <= Max(0, 12 - calls[c].args[1])
              /\ calls[c].pc = "done"
                    => Len(calls[c].ret[1]) <= Max(0, 12 - calls[c].args[1])

\* every call has returned
AllReturned == \A c \in Callers : calls[c].pc \in {"off", "done"}

\* C20: totality and termination. On every integer input the loops of
\* computeTotalLLTicks, ticksToLevelProgress and computeLLClockDisplays
\* terminate; ticksToLevelProgress inspects at most 12 levels and
\* computeLLClockDisplays emits at most max(0, 12 - currentLevel) displays.
C20_Terminates == ([]LoopBounds) /\ (<>AllReturned)

\* a call from level 0 with more pending ticks than all clocks hold has
\* returned the most displays there can be
C20_Witness ==
    /\ calls[1].fn = "computeLLClockDisplays"
    /\ calls[1].args = <<0, 0, 50>>
    /\ calls[1].pc = "done"
    /\ calls[1].iters = 12
    /\ Len(calls[1].ret[1]) = 12

\* C21: preview agrees with commit. For L in 0..11, P in 0..segments(L) and
\* N >= 0, with D the last display of computeLLClockDisplays(L, P, N) and
\* S = ticksToLevelProgress(computeTotalLLTicks(L, P) + N): a last clock
\* with room left gives S = {D.level, D.filled + D.pending}, a full last
\* clock gives S = {D.level + 1, 0}.
C21_PreviewAgreesWithCommit ==
    ( /\ fn = "computeLLClockDisplays"
      /\ args[1] \in 0..11
      /\ args[2] \in 0..getLLClockSegments(args[1])
      /\ args[3] >= 0 )
    => /\ Len(ret) >= 1
       /\ LET D == LastDisplay(ret)
              S == ticksToLevelProgress(
                       computeTotalLLTicks(args[1], args[2]) + args[3])
          IN  /\ D.filled + D.pending <= D.segments
              /\ D.filled + D.pending < D.segments
                    => S = [level |-> D.level, progress |-> D.filled + D.pending]
              /\ D.filled + D.pending = D.segments
                    => S = [level |-> D.level + 1, progress |-> 0]

\* a full starting clock and pending ticks that exactly fill the next one
C21_Witness ==
    /\ fn = "computeLLClockDisplays"
    /\ args = <<5, 3, 4>>
    /\ LastDisplay(ret) = LLClockInfo(6, 4, 0, 4)
    /\ ticksToLevelProgress(computeTotalLLTicks(5, 3) + 4)
          = [level |-> 7, progress |-> 0]

\* the edit form shows the log's stored delta, not yet edited
Unedited ==
    /\ page = "edit"
    /\ pilot # Null
    /\ llClockChange = log.ll_clock_change

\* C22: re-applying a log's own delta reproduces the pilot's total. For a
\* valid stored pilot and a stored delta c in 0..total, the preview of c on
\* the base state (total - c through ticksToLevelProgress) has pending
\* values that sum to c, so base ticks plus previewed pending equal the
\* total: on the form as opened, and for every delta the log could hold.
C22_ReapplyOwnDelta ==
    Unedited =>
        /\ log.ll_clock_change <= EditLogBase(pilot, log).llTotalTicks
              => /\ SumPending(preview) = log.ll_clock_change
                 /\ EditLogBase(pilot, log).llBaseTicks + SumPending(preview)
                       = EditLogBase(pilot, log).llTotalTicks
        /\ \A c \in 0..EditLogBase(pilot, log).llTotalTicks :
              LET stored == [ll_clock_change |-> c]
              IN  /\ SumPending(EditLogPreview(pilot, stored, c)) = c
                  /\ EditLogBase(pilot, stored).llBaseTicks
                        + SumPending(EditLogPreview(pilot, stored, c))
                        = EditLogBase(pilot, stored).llTotalTicks

\* a log of 3 ticks on a pilot at (11, 1): the base is (10, 3) and the
\* preview crosses into level 11
C22_Witness ==
    /\ Unedited
    /\ pilot = PilotRow(11, 1)
    /\ log.ll_clock_change = 3
    /\ preview = << LLClockInfo(10, 5, 3, 2), LLClockInfo(11, 5, 0, 1) >>

\* C23: reverse round trip. For every integer t, with
\* r = ticksToLevelProgress(t), computeTotalLLTicks(r.level, r.progress) is
\* min(max(t, 0), 44): the identity on 0..44, saturating outside.
C23_ReverseRoundTrip ==
    fn = "ticksToLevelProgress" =>
        /\ computeTotalLLTicks(ret.level, ret.progress)
              = Min(Max(args[1], 0), 44)
        /\ (computeTotalLLTicks(ret.level, ret.progress) = args[1])
              <=> args[1] \in 0..44

C23_Witness ==
    /\ fn = "ticksToLevelProgress"
    /\ args = <<45>>
    /\ computeTotalLLTicks(ret.level, ret.progress) = 44

\* C24: batching commits. From any valid state, committing non-negative
\* deltas one at a time ends in the state of committing their sum at once,
\* ticksToLevelProgress(initial total + d1 + ... + dn); the level never
\* decreases along the way and (12, 0) is absorbing.
C24_Batching ==
    /\ [](pilotRow = CommitTicks(start, committed))
    /\ [][ /\ pilotRow'.license_level >= pilotRow.license_level
           /\ pilotRow = PilotRow(12, 0) => pilotRow' = PilotRow(12, 0) ]_vars

\* 30 ticks committed in more than one log from (2, 1)
C24_Witness ==
    /\ start = PilotRow(2, 1)
    /\ committed = 30
    /\ pilotRow = PilotRow(10, 3)

\* C25: every display but the last is completely full.
C25_AllButLastFull ==
    fn = "computeLLClockDisplays" =>
        \A i \in 1..(Len(ret) - 1) :
            ret[i].filled + ret[i].pending = ret[i].segments

C25_Witness ==
    /\ fn = "computeLLClockDisplays"
    /\ args = <<4, 1, 7>>
    /\ ret = << LLClockInfo(4, 3, 1, 2), LLClockInfo(5, 3, 0, 3),
                LLClockInfo(6, 4, 0, 2) >>

\* C26: for all integer inputs (negative or oversized progress and negative
\* pendingTicks included) every display has filled + pending <= segments.
C26_NeverOverfull ==
    fn = "computeLLClockDisplays" =>
        \A i \in 1..Len(ret) :
            ret[i].filled + ret[i].pending <= ret[i].segments

\* oversized progress and pending ticks: the first clock is shown full
C26_Witness ==
    /\ fn = "computeLLClockDisplays"
    /\ args = <<3, 7, 2>>
    /\ ret = << LLClockInfo(3, 3, 3, 0), LLClockInfo(4, 3, 0, 2) >>

\* C27: the three copies of the segment table agree: for every integer ll
\* the ll-clock module's getLLClockSegments, the pilot page's
\* getLLClockSegments and the SQL function get_ll_clock_segments return the
\* same value.
C27_TablesAgree ==
    fn \in {"getLLClockSegments", "PilotPage_getLLClockSegments",
            "get_ll_clock_segments"} =>
        /\ ret = getLLClockSegments(args[1])
        /\ ret = PilotPage_getLLClockSegments(args[1])
        /\ ret = get_ll_clock_segments(args[1])

C27_Witness ==
    /\ fn = "get_ll_clock_segments"
    /\ args = <<0>>
    /\ ret = 3
    /\ getLLClockSegments(0) = 3
    /\ PilotPage_getLLClockSegments(0) = 3

\* C28: in the new-log form, whatever the '+' and '-' clicks and log-type
\* toggles, the drafted llClockChange stays within 0..25, and so does the
\* ll_clock_change of a submitted log.
C28_ChangeInRange ==
    /\ page = "new" => llClockChange \in 0..25
    /\ (request # Null /\ request.method = "POST")
          => request.ll_clock_change \in 0..25

\* 25 ticks were submitted, then the draft was clicked down to 0
C28_Witness ==
    /\ page = "new"
    /\ request # Null
    /\ request.method = "POST"
    /\ request.ll_clock_change = 25
    /\ llClockChange = 0

\* C29: in the new-log form selectedClocks never holds an entry with 0
\* ticks and every entry is in 1..25; every clock_progress item submitted
\* has ticks_applied > 0.
C29_NoZeroEntry ==
    /\ \A clockId \in DOMAIN selectedClocks :
          selectedClocks[clockId] \in 1..25
    /\ (request # Null /\ request.method = "POST") =>
          \A item \in request.clock_progress : item.ticks_applied > 0

\* 25 ticks of a clock were submitted, then the clock was clicked down to 0
\* and its entry is gone
C29_Witness ==
    /\ page = "new"
    /\ request # Null
    /\ request.clock_progress
          = { [clock_id |-> "clock", ticks_applied |-> 25] }
    /\ selectedClocks = NoClocks

====
